---- MODULE Spec2Model ----
(***************************************************************************)
(* Model of the Viterbi decoders of hmmadn:                                *)
(*   hmm/viterbi.py          class Viterbi      (HMM decoder)              *)
(*   semihmm/semiviterbi.py  class SemiViterbi  (semi-Markov decoder)      *)
(*   utils.py                sum_delta_arrays   (log-domain array merge)   *)
(*                                                                         *)
(* Numbers.  A probability is either PZero (exactly 0) or 2^-e, written    *)
(* as its exponent e >= 0 (0 is probability 1, 1 is 1/2, 2 is 1/4).  A     *)
(* log-probability is an integer in units of ln 2 (log(2^-e) = -e), or     *)
(* NegInf for -float('inf').  Sums of logs are exact in the model.         *)
(* Python lists and numpy arrays keep the source's 0-based indices where   *)
(* they are functions; a list that grows by append is a sequence, read     *)
(* through At(list, k) = list[k] of the source.                            *)
(***************************************************************************)
EXTENDS Integers, Sequences, FiniteSets, TLC

VARIABLES semi, hmm, merge

vars == <<semi, hmm, merge>>

----------------------------------------------------------------------------
(* Bounds of the model: the number of states n, the greatest duration     *)
(* d_max, the greatest length T of an observation sequence, and the       *)
(* number of run_viterbi calls made on one Viterbi object.  Every decoder *)
(* is built with n = NStates and d_max = MaxD.                            *)

NStates == 2
MaxD == 2
MaxT == 3
MaxCalls == 2

----------------------------------------------------------------------------
(* Values *)

PZero == -1
NegInf == -1000
NaN == -2
None == -3

StateIdx == 0 .. (NStates - 1)
Durations == 1 .. MaxD

At(list, k) == list[k + 1]
Last(list) == list[Len(list)]

RECURSIVE Reverse(_)
Reverse(s) == IF s = <<>> THEN <<>> ELSE Append(Reverse(Tail(s)), Head(s))

RECURSIVE SumSeq(_)
SumSeq(s) == IF s = <<>> THEN 0 ELSE Head(s) + SumSeq(Tail(s))

(* numpy.log on a probability: log(0) is -inf (a warning, no exception) *)
NpLog(p) == IF p = PZero THEN NegInf ELSE 0 - p

(* float addition of log-probabilities: -inf absorbs *)
FAdd(a, b) == IF a = NegInf \/ b = NegInf THEN NegInf ELSE a + b

(* obs_list[lo:hi] of Python, negative lo counted from the end *)
Slice(list, lo, hi) ==
    LET len == Len(list)
        l0  == IF lo < 0 THEN (IF lo + len < 0 THEN 0 ELSE lo + len)
                         ELSE (IF lo > len THEN len ELSE lo)
        h0  == IF hi < 0 THEN (IF hi + len < 0 THEN 0 ELSE hi + len)
                         ELSE (IF hi > len THEN len ELSE hi)
    IN  IF h0 <= l0 THEN <<>> ELSE [k \in 1 .. (h0 - l0) |-> list[l0 + k]]

----------------------------------------------------------------------------
(* Inputs: the models and observation sequences the decoders are built on *)

PointMass(S, a) == [x \in S |-> IF x = a THEN 0 ELSE PZero]
HalfHalf(S, a, b) == [x \in S |-> IF x \in {a, b} THEN 1 ELSE PZero]

(* distributions over S with entries in {0, 1/2, 1} summing to 1 *)
StochVecs(S) ==
    {PointMass(S, a) : a \in S}
        \cup {HalfHalf(S, p[1], p[2]) : p \in {q \in S \X S : q[1] < q[2]}}

(* row-stochastic matrices: the first two rows are free; a further row i  *)
(* repeats row i % 2, shifted by i places so that its diagonal entry is    *)
(* the diagonal entry of the row it repeats                                *)
TransMat(rows) ==
    [i \in StateIdx |-> [j \in StateIdx |->
        IF i < 2 THEN rows[i % 2][j]
        ELSE rows[i % 2][(j + NStates - i + (i % 2)) % NStates]]]

TransMats == {TransMat(rows) : rows \in [{0, 1} -> StochVecs(StateIdx)]}

(* the emission callables: b(j, o) for one observation o *)
EmissionKinds == {"perfect", "noisy", "exact", "gap"}

Emission(kind, j, o) ==
    CASE kind = "perfect" -> 0
      [] kind = "noisy"   -> IF j % 2 = o % 2 THEN 1 ELSE 2
      [] kind = "exact"   -> IF j % 2 = o % 2 THEN 0 ELSE PZero
      [] kind = "gap"     -> IF o % 2 = 1 THEN PZero ELSE 1

(* likelihood of a segment: the product of its observations' likelihoods *)
RECURSIVE SegmentEmission(_, _, _)
SegmentEmission(kind, j, seg) ==
    IF seg = <<>> THEN 0
    ELSE LET h == Emission(kind, j, Head(seg))
             r == SegmentEmission(kind, j, Tail(seg))
         IN  IF h = PZero \/ r = PZero THEN PZero ELSE h + r

(* observations are distinct data points: the t-th one is written t *)
ObsLists == {[k \in 1 .. T |-> k - 1] : T \in 1 .. MaxT}

----------------------------------------------------------------------------
(* utils.py: sum_delta_arrays.  The two masked assignments write into the  *)
(* caller's arrays, so the operator yields the arrays as they are after    *)
(* the call together with the returned array.                              *)

ZeroInf(a) == [r \in DOMAIN a |-> [c \in DOMAIN a[r] |->
                  IF a[r][c] = NegInf THEN 0 ELSE a[r][c]]]

InfZero(a) == [r \in DOMAIN a |-> [c \in DOMAIN a[r] |->
                  IF a[r][c] = 0 THEN NegInf ELSE a[r][c]]]

ArrayAdd(a, b) == [r \in DOMAIN a |-> [c \in DOMAIN a[r] |-> a[r][c] + b[r][c]]]

sum_delta_arrays(delta1, delta2) ==
    LET d1 == ZeroInf(delta1)
        d2 == ZeroInf(delta2)
    IN  [delta1 |-> d1, delta2 |-> d2, res |-> InfZero(ArrayAdd(d1, d2))]

----------------------------------------------------------------------------
(* semihmm/semiviterbi.py: class SemiViterbi *)

DurIdx == 0 .. (MaxD - 1)

Semi_b_Sj_Ot(self, j, obs_segment) == SegmentEmission(self.b, j, obs_segment)

(* variant of the array below: every duration up to init_d is filled     *)
(* (d <= init_d for d == init_d)                                          *)
get_init_delta_array_upto(self, t, init_d) ==
    [d_ \in DurIdx |-> [j \in StateIdx |->
        LET d == d_ + 1
        IN  IF d <= init_d
            THEN FAdd(FAdd(NpLog(self.mus[j]), NpLog(self.pd[d])),
                      NpLog(Semi_b_Sj_Ot(self, j, Slice(self.obs_list, t + 1 - d, t + 1))))
            ELSE NegInf]]

get_init_delta_array(self, t, init_d) ==
    [d_ \in DurIdx |-> [j \in StateIdx |->
        LET d == d_ + 1
        IN  IF d = init_d
            THEN FAdd(FAdd(NpLog(self.mus[j]), NpLog(self.pd[d])),
                      NpLog(Semi_b_Sj_Ot(self, j, Slice(self.obs_list, t + 1 - d, t + 1))))
            ELSE NegInf]]

(* one candidate of the double loop of _get_dtj *)
Semi_dtj_temp(self, t, j, d, bsjot, i, d_) ==
    LET pd == self.pd[d]
    IN  IF \/ self.trans_mat[i][j] = PZero
           \/ t < d
           \/ bsjot = PZero
           \/ pd = PZero
        THEN NegInf
        ELSE FAdd(FAdd(FAdd(NpLog(self.trans_mat[i][j]), NpLog(pd)),
                       At(self.deltas, t - d)[d_][i]),
                  NpLog(bsjot))

(* the loops "for i in range(n): if i != j: for d_ in range(max_d)",     *)
(* k = i * max_d + d_ running over them in order                         *)
RECURSIVE Semi_dtj_loop(_, _, _, _, _, _, _)
Semi_dtj_loop(self, t, j, d, bsjot, k, max_) ==
    IF k = NStates * MaxD THEN max_
    ELSE LET i  == k \div MaxD
             d_ == k % MaxD
         IN  IF i = j THEN Semi_dtj_loop(self, t, j, d, bsjot, k + 1, max_)
             ELSE LET temp == Semi_dtj_temp(self, t, j, d, bsjot, i, d_)
                  IN  Semi_dtj_loop(self, t, j, d, bsjot, k + 1,
                                    IF temp > max_ THEN temp ELSE max_)

Semi_get_dtj(self, t, j, d) ==
    LET obs_segment == Slice(self.obs_list, t + 1 - d, t + 1)
        bsjot       == Semi_b_Sj_Ot(self, j, obs_segment)
    IN  Semi_dtj_loop(self, t, j, d, bsjot, 0, NegInf)

(* one candidate of the double loop of _get_phi_tj *)
Semi_phi_temp(self, t, j, d, bsjot, i, d_) ==
    LET pd == self.pd[d]
    IN  IF \/ self.trans_mat[i][j] = PZero
           \/ t < d
           \/ bsjot = PZero
           \/ pd = PZero
        THEN NegInf
        ELSE FAdd(FAdd(FAdd(NpLog(self.trans_mat[i][j]), NpLog(pd)),
                       At(self.deltas, t - d)[d_][i]),
                  NpLog(bsjot))

(* the pair stored when a candidate beats the running maximum *)
Semi_phi_pair(i, d_) == <<i, d_ + 1>>

(* variant of the loops below without the test "if i != j" *)
RECURSIVE Semi_phi_loop_self(_, _, _, _, _, _, _, _)
Semi_phi_loop_self(self, t, j, d, bsjot, k, max_, state_duration_pair) ==
    IF k = NStates * MaxD THEN state_duration_pair
    ELSE LET i    == k \div MaxD
             d_   == k % MaxD
             temp == Semi_phi_temp(self, t, j, d, bsjot, i, d_)
         IN  IF temp > max_
             THEN Semi_phi_loop_self(self, t, j, d, bsjot, k + 1, temp,
                                     Semi_phi_pair(i, d_))
             ELSE Semi_phi_loop_self(self, t, j, d, bsjot, k + 1, max_,
                                     state_duration_pair)

RECURSIVE Semi_phi_loop(_, _, _, _, _, _, _, _)
Semi_phi_loop(self, t, j, d, bsjot, k, max_, state_duration_pair) ==
    IF k = NStates * MaxD THEN state_duration_pair
    ELSE LET i  == k \div MaxD
             d_ == k % MaxD
         IN  IF i = j
             THEN Semi_phi_loop(self, t, j, d, bsjot, k + 1, max_, state_duration_pair)
             ELSE LET temp == Semi_phi_temp(self, t, j, d, bsjot, i, d_)
                  IN  IF temp > max_
                      THEN Semi_phi_loop(self, t, j, d, bsjot, k + 1, temp,
                                         Semi_phi_pair(i, d_))
                      ELSE Semi_phi_loop(self, t, j, d, bsjot, k + 1, max_,
                                         state_duration_pair)

Semi_get_phi_tj(self, t, j, d) ==
    LET obs_segment == Slice(self.obs_list, t + 1 - d, t + 1)
        bsjot       == Semi_b_Sj_Ot(self, j, obs_segment)
    IN  Semi_phi_loop(self, t, j, d, bsjot, 0, NegInf, <<NaN, NaN>>)

get_delta_array(self, t) ==
    [d_ \in DurIdx |-> [j \in StateIdx |-> Semi_get_dtj(self, t, j, d_ + 1)]]

get_delta(self, t) ==
    LET delta_array == get_delta_array(self, t)
    IN  IF t < MaxD
        THEN sum_delta_arrays(get_init_delta_array(self, t, t + 1), delta_array).res
        ELSE delta_array

(* a.argmax() of numpy on the flattened array: the first greatest cell,    *)
(* rows (duration index) before columns (state); unravel_index gives back  *)
(* <<row, column>>                                                         *)
RECURSIVE ArgmaxFlat(_, _, _, _)
ArgmaxFlat(a, k, best, bestv) ==
    IF k = MaxD * NStates THEN best
    ELSE LET v == a[k \div NStates][k % NStates]
         IN  IF v > bestv THEN ArgmaxFlat(a, k + 1, k, v)
                          ELSE ArgmaxFlat(a, k + 1, best, bestv)

Argmax2D(a) ==
    LET k == ArgmaxFlat(a, 1, 0, a[0][0])
    IN  <<k \div NStates, k % NStates>>

IsNan(x) == x = NaN

----------------------------------------------------------------------------
(* The SemiViterbi object.  pc is the position of the one caller:          *)
(* "idle" (constructed), "forward" (in set_deltas_and_phis), "backtrack"   *)
(* (in the while loop of set_optimal_sequence), "returned", "raised".      *)

NoObject == [pc |-> "none"]

SemiViterbi_init(mus, pd, b_Sj_Ot_function, trans_mat, obs_only) ==
    [ mus |-> mus, pd |-> pd, b |-> b_Sj_Ot_function, trans_mat |-> trans_mat,
      obs_list |-> obs_only, n_obs |-> Len(obs_only),
      deltas |-> <<>>, phis |-> <<>>,
      states_only |-> <<>>, states_and_durations |-> <<>>, durations_only |-> <<>>,
      t |-> 0, d |-> 0, j |-> 0, pc |-> "idle" ]

SemiInputs ==
    { SemiViterbi_init(mus, pd, b, trans_mat, obs) :
        mus \in StochVecs(StateIdx), pd \in StochVecs(Durations),
        b \in EmissionKinds, trans_mat \in TransMats, obs \in ObsLists }

(* run_viterbi is entered: set_deltas_and_phis empties both tables *)
SemiRunViterbi ==
    /\ semi.pc \in {"idle", "returned", "raised"}
    /\ semi' = [semi EXCEPT !.deltas = <<>>, !.phis = <<>>, !.pc = "forward"]
    /\ UNCHANGED <<hmm, merge>>

(* one iteration of "for t in range(self.n_obs)" *)
set_deltas_and_phis_step(self) ==
    LET t == Len(self.deltas)
    IN  IF t = 0
        THEN [self EXCEPT
                !.deltas = Append(@, get_init_delta_array(self, t, t + 1)),
                !.phis   = Append(@, [d_ \in DurIdx |-> [j \in StateIdx |-> <<NaN, NaN>>]])]
        ELSE LET appended == [self EXCEPT !.deltas = Append(@, get_delta(self, t))]
             IN  [appended EXCEPT
                    !.phis = Append(@, [d_ \in DurIdx |-> [j \in StateIdx |->
                                          Semi_get_phi_tj(appended, t, j, d_ + 1)]])]

SemiForwardStep ==
    /\ semi.pc = "forward"
    /\ Len(semi.deltas) < semi.n_obs
    /\ semi' = set_deltas_and_phis_step(semi)
    /\ UNCHANGED <<hmm, merge>>

(* set_optimal_sequence up to the while loop *)
set_optimal_sequence_begin(self) ==
    LET a      == Last(self.deltas)
        index_ == Argmax2D(a)
        d      == index_[1] + 1
        j      == index_[2]
    IN  [self EXCEPT !.states_only = <<j>>,
                     !.states_and_durations = <<<<j, d>>>>,
                     !.durations_only = <<d>>,
                     !.t = self.n_obs, !.d = d, !.j = j, !.pc = "backtrack"]

SemiBeginBacktrack ==
    /\ semi.pc = "forward"
    /\ Len(semi.deltas) = semi.n_obs
    /\ semi' = set_optimal_sequence_begin(semi)
    /\ UNCHANGED <<hmm, merge>>

(* the three reversals after the loop *)
set_optimal_sequence_end(self) ==
    [self EXCEPT !.states_only = Reverse(@),
                 !.states_and_durations = Reverse(@),
                 !.durations_only = Reverse(@),
                 !.pc = "returned"]

(* variants of the test below: the sentinel never fails the decode; it    *)
(* fails it only once the cursor has passed the origin                    *)
BacktrackRaises_never(t) == FALSE

BacktrackRaises_below(t) == t < 0

(* does the sentinel read at cursor t make the decode fail *)
BacktrackRaises(t) == t # 0

(* one iteration of "while t > 0", and the reversals when the loop ends *)
set_optimal_sequence_step(self) ==
    LET star   == At(self.phis, self.t - 1)[self.d - 1][self.j]
        j_star == star[1]
        d_star == star[2]
        t      == self.t - self.d
        moved  == [self EXCEPT !.t = t]
    IN  IF IsNan(j_star) \/ IsNan(d_star)
        THEN IF BacktrackRaises(t)
             THEN [moved EXCEPT !.pc = "raised"]
             ELSE set_optimal_sequence_end(moved)
        ELSE LET next == [moved EXCEPT
                            !.j = j_star, !.d = d_star,
                            !.states_only = Append(@, j_star),
                            !.states_and_durations = Append(@, <<j_star, d_star>>),
                            !.durations_only = Append(@, d_star)]
             IN  IF t > 0 THEN next ELSE set_optimal_sequence_end(next)

SemiBacktrackStep ==
    /\ semi.pc = "backtrack"
    /\ semi.t > 0
    /\ semi' = set_optimal_sequence_step(semi)
    /\ UNCHANGED <<hmm, merge>>

InitSemi ==
    /\ semi \in SemiInputs
    /\ hmm = NoObject
    /\ merge = NoObject

NextSemi ==
    \/ SemiRunViterbi
    \/ SemiForwardStep
    \/ SemiBeginBacktrack
    \/ SemiBacktrackStep

SpecSemi == InitSemi /\ [][NextSemi]_vars

----------------------------------------------------------------------------
(* A caller of sum_delta_arrays holding two arrays of the same shape.      *)
(* arg1 and arg2 record the arrays as they were handed over.               *)

MergeRows == {0}
MergeCols == {0, 1}
LogVals == {NegInf, -2, -1, 0}
MergeArrays == [MergeRows -> [MergeCols -> LogVals]]

InitMerge ==
    /\ merge \in { [delta1 |-> a, delta2 |-> b, arg1 |-> a, arg2 |-> b,
                    res |-> None, pc |-> "idle"] : a \in MergeArrays, b \in MergeArrays }
    /\ semi = NoObject
    /\ hmm = NoObject

MergeCall ==
    /\ merge.pc = "idle"
    /\ LET out == sum_delta_arrays(merge.delta1, merge.delta2)
       IN  merge' = [merge EXCEPT !.delta1 = out.delta1, !.delta2 = out.delta2,
                                  !.res = out.res, !.pc = "returned"]
    /\ UNCHANGED <<semi, hmm>>

NextMerge == MergeCall

SpecMerge == InitMerge /\ [][NextMerge]_vars

----------------------------------------------------------------------------
(* hmm/viterbi.py: class Viterbi *)

(* math.log raises ValueError on 0 *)
MathLogRaises(p) == p = PZero
MathLog(p) == 0 - p

Viterbi_b_Sj_Ot(self, j, t) == Emission(self.b, j, At(self.obs_list, t))

(* the body of the try of _get_dtj, and its except branch *)
Viterbi_dtj_temp(self, t, j, bsjot, i) ==
    IF MathLogRaises(self.trans_mat[i][j]) \/ MathLogRaises(bsjot)
    THEN NegInf
    ELSE FAdd(FAdd(MathLog(self.trans_mat[i][j]), At(self.deltas, t - 1)[i]),
              MathLog(bsjot))

RECURSIVE Viterbi_dtj_loop(_, _, _, _, _, _)
Viterbi_dtj_loop(self, t, j, bsjot, i, max_) ==
    IF i = NStates THEN max_
    ELSE LET temp == Viterbi_dtj_temp(self, t, j, bsjot, i)
         IN  Viterbi_dtj_loop(self, t, j, bsjot, i + 1,
                              IF temp > max_ THEN temp ELSE max_)

Viterbi_get_dtj(self, t, j) ==
    Viterbi_dtj_loop(self, t, j, Viterbi_b_Sj_Ot(self, j, t), 0, NegInf)

(* the body of the try of _get_phi_tj, and its except branch *)
Viterbi_phi_temp(self, t, j, i) ==
    IF MathLogRaises(self.trans_mat[i][j])
    THEN NegInf
    ELSE FAdd(MathLog(self.trans_mat[i][j]), At(self.deltas, t - 1)[i])

(* variant of the loop below: a later candidate that equals the running   *)
(* maximum replaces it (>= for >)                                         *)
RECURSIVE Viterbi_phi_loop_last(_, _, _, _, _, _)
Viterbi_phi_loop_last(self, t, j, i, max_value, max_S) ==
    IF i = NStates THEN max_S
    ELSE LET temp == Viterbi_phi_temp(self, t, j, i)
         IN  IF temp >= max_value
             THEN Viterbi_phi_loop_last(self, t, j, i + 1, temp, i)
             ELSE Viterbi_phi_loop_last(self, t, j, i + 1, max_value, max_S)

RECURSIVE Viterbi_phi_loop(_, _, _, _, _, _)
Viterbi_phi_loop(self, t, j, i, max_value, max_S) ==
    IF i = NStates THEN max_S
    ELSE LET temp == Viterbi_phi_temp(self, t, j, i)
         IN  IF temp > max_value
             THEN Viterbi_phi_loop(self, t, j, i + 1, temp, i)
             ELSE Viterbi_phi_loop(self, t, j, i + 1, max_value, max_S)

Viterbi_get_phi_tj(self, t, j) == Viterbi_phi_loop(self, t, j, 0, NegInf, None)

(* one iteration of "for t in range(self.n_obs)" of _get_deltas_and_phis;  *)
(* at t = 0 the logarithms are taken outside any try                       *)
Viterbi_forward_raises(self, t) ==
    /\ t = 0
    /\ \E j \in StateIdx :
          MathLogRaises(self.mus[j]) \/ MathLogRaises(Viterbi_b_Sj_Ot(self, j, t))

Viterbi_forward_step(self, t) ==
    IF Viterbi_forward_raises(self, t)
    THEN [self EXCEPT !.pc = "ValueError"]
    ELSE IF t = 0
    THEN [self EXCEPT
            !.deltas = Append(@, [j \in StateIdx |->
                          FAdd(MathLog(self.mus[j]), MathLog(Viterbi_b_Sj_Ot(self, j, t)))]),
            !.phis   = Append(@, [j \in StateIdx |-> 0]),
            !.t      = t + 1]
    ELSE LET appended == [self EXCEPT
                            !.deltas = Append(@, [j \in StateIdx |->
                                                    Viterbi_get_dtj(self, t, j)])]
         IN  [appended EXCEPT
                !.phis = Append(@, [j \in StateIdx |-> Viterbi_get_phi_tj(appended, t, j)]),
                !.t    = t + 1]

(* list.index(max(list)): the first index of the greatest element *)
RECURSIVE IndexOfMax(_, _, _)
IndexOfMax(row, i, best) ==
    IF i = NStates THEN best
    ELSE IndexOfMax(row, i + 1, IF row[i] > row[best] THEN i ELSE best)

(* the loop "for phis in list(reversed(self.phis[1:]))": k runs from the   *)
(* last table down to index 1; indexing a table with None is a TypeError  *)
RECURSIVE Viterbi_backtrack(_, _, _)
Viterbi_backtrack(phis, k, states_star) ==
    IF k < 1 THEN [raised |-> FALSE, states_star |-> states_star]
    ELSE IF Last(states_star) = None
    THEN [raised |-> TRUE, states_star |-> states_star]
    ELSE Viterbi_backtrack(phis, k - 1,
                           Append(states_star, At(phis, k)[Last(states_star)]))

(* The Viterbi object.  pc: "idle" (constructed), "forward" (in            *)
(* _get_deltas_and_phis, t its loop index), "returned", "ValueError",      *)
(* "TypeError".  calls counts the run_viterbi calls and first keeps the    *)
(* path the first call returned; result is the value of the last return.   *)
Viterbi_init(obs_list, trans_mat, mus, b_Sj_Ot_function) ==
    [ deltas |-> <<>>, phis |-> <<>>, obs_list |-> obs_list,
      n_obs |-> Len(obs_list), trans_mat |-> trans_mat, mus |-> mus,
      b |-> b_Sj_Ot_function,
      t |-> 0, result |-> <<>>, calls |-> 0, first |-> <<>>, pc |-> "idle" ]

HmmInputs ==
    { Viterbi_init(obs, trans_mat, mus, b) :
        obs \in ObsLists, trans_mat \in TransMats,
        mus \in StochVecs(StateIdx), b \in EmissionKinds }

HmmRunViterbi ==
    /\ hmm.pc \in {"idle", "returned", "ValueError", "TypeError"}
    /\ hmm.calls < MaxCalls
    /\ hmm' = [hmm EXCEPT !.pc = "forward", !.t = 0, !.calls = @ + 1]
    /\ UNCHANGED <<semi, merge>>

HmmForwardStep ==
    /\ hmm.pc = "forward"
    /\ hmm.t < hmm.n_obs
    /\ hmm' = Viterbi_forward_step(hmm, hmm.t)
    /\ UNCHANGED <<semi, merge>>

(* run_viterbi after _get_deltas_and_phis *)
run_viterbi_path(self) ==
    LET phi_T == IndexOfMax(Last(self.deltas), 0, 0)
        out   == Viterbi_backtrack(self.phis, Len(self.phis) - 1, <<phi_T>>)
    IN  IF out.raised
        THEN [self EXCEPT !.pc = "TypeError"]
        ELSE [self EXCEPT !.pc = "returned",
                          !.result = Reverse(out.states_star),
                          !.first = IF self.calls = 1 THEN Reverse(out.states_star) ELSE @]

HmmBacktrack ==
    /\ hmm.pc = "forward"
    /\ hmm.t = hmm.n_obs
    /\ hmm' = run_viterbi_path(hmm)
    /\ UNCHANGED <<semi, merge>>

InitHMM ==
    /\ hmm \in HmmInputs
    /\ semi = NoObject
    /\ merge = NoObject

NextHMM ==
    \/ HmmRunViterbi
    \/ HmmForwardStep
    \/ HmmBacktrack

SpecHMM == InitHMM /\ [][NextHMM]_vars

----------------------------------------------------------------------------
(* Reference definitions for the claims about the semi-Markov decoder *)

(* all sequences of <<state, duration>> segments with durations in         *)
(* 1..MaxD summing to T and consecutive states distinct                    *)
RECURSIVE Segmentations(_)
Segmentations(T) ==
    IF T = 0 THEN {<<>>}
    ELSE UNION { { <<<<j, d>>>> \o rest :
                     rest \in {r \in Segmentations(T - d) : r = <<>> \/ r[1][1] # j} }
                 : j \in StateIdx, d \in {e \in Durations : e <= T} }

(* log-probability of a segmentation whose k-th segment starts at `from` *)
RECURSIVE SegScoreFrom(_, _, _, _)
SegScoreFrom(self, segs, k, from) ==
    IF k > Len(segs) THEN 0
    ELSE LET j    == segs[k][1]
             d    == segs[k][2]
             here == FAdd(NpLog(self.pd[d]),
                          NpLog(SegmentEmission(self.b, j,
                                    Slice(self.obs_list, from, from + d))))
             link == IF k = 1 THEN NpLog(self.mus[j])
                              ELSE NpLog(self.trans_mat[segs[k - 1][1]][j])
         IN  FAdd(FAdd(link, here), SegScoreFrom(self, segs, k + 1, from + d))

SegScore(self, segs) == SegScoreFrom(self, segs, 1, 0)

MaxOf(S) == CHOOSE x \in S : \A y \in S : y <= x

BruteMaxSemi(self) ==
    MaxOf({SegScore(self, segs) : segs \in Segmentations(self.n_obs)})

IsSegmentation(self, segs) == segs \in Segmentations(self.n_obs)

Durations_of(states_and_durations) ==
    [k \in 1 .. Len(states_and_durations) |-> states_and_durations[k][2]]

(* C1: whenever run_viterbi has returned, durations_only and the          *)
(* durations of states_and_durations each sum to T = n_obs, and the       *)
(* backtracking cursor stands at exactly 0; while backtracking goes on    *)
(* the cursor is never below 0.                                           *)
C1_DurationsSumToT ==
    /\ semi.pc = "returned" =>
          /\ SumSeq(semi.durations_only) = semi.n_obs
          /\ SumSeq(Durations_of(semi.states_and_durations)) = semi.n_obs
          /\ semi.t = 0
    /\ semi.pc = "backtrack" => semi.t > 0

C1_Witness ==
    /\ semi.pc = "returned"
    /\ Len(semi.durations_only) >= 2
    /\ \E k \in 1 .. Len(semi.durations_only) : semi.durations_only[k] >= 2

SentinelRead ==
    /\ semi.pc = "backtrack"
    /\ At(semi.phis, semi.t - 1)[semi.d - 1][semi.j] = <<NaN, NaN>>

(* C9: a backtracking step that reads the (NaN, NaN) sentinel raises, and  *)
(* returns no path, when t - d # 0; it ends the decode normally exactly    *)
(* when t - d = 0.                                                         *)
C9_SentinelOnlyAtOrigin ==
    [][SentinelRead =>
          IF semi.t - semi.d # 0
          THEN semi'.pc = "raised" /\ semi'.t = semi.t - semi.d
          ELSE semi'.pc = "returned" /\ semi'.t = 0]_vars

C9_Witness ==
    /\ semi.pc = "raised"
    /\ semi.t > 0
    /\ semi.n_obs >= 2

(* C4: the decode yields the most probable segmentation: whenever some    *)
(* segmentation has positive probability the decode returns (does not     *)
(* raise), and what it returns has the greatest score.                    *)
C4_SemiOptimal ==
    /\ semi.pc = "raised" => BruteMaxSemi(semi) = NegInf
    /\ semi.pc = "returned" =>
          SegScore(semi, semi.states_and_durations) = BruteMaxSemi(semi)

(* the early time steps being merged: the step the forward pass builds    *)
(* next and the step it has just built.  Step t reads only                *)
(* self.deltas[t - d] with 1 <= d <= t, and the tables only grow during   *)
(* a decode, so the two arrays of a step are the same in every later      *)
(* state of that decode.                                                  *)
EarlySteps ==
    {t \in 1 .. (MaxD - 1) :
        t < semi.n_obs /\ t \in {Len(semi.deltas) - 1, Len(semi.deltas)}}

(* C12: at every early step 1 <= t < d_max and every cell (d, j), the     *)
(* array get_init_delta_array(t, t+1) is finite only where d = t+1, the   *)
(* array get_delta_array(t) is finite only where d <= t, and so the two   *)
(* arrays handed to sum_delta_arrays are never both finite in one cell.   *)
C12_MergeInputsNeverBothFinite ==
    \A t \in EarlySteps :
        LET init == get_init_delta_array(semi, t, t + 1)
            rec  == get_delta_array(semi, t)
        IN  \A d_ \in DurIdx : \A j \in StateIdx :
               /\ init[d_][j] # NegInf => d_ + 1 = t + 1
               /\ rec[d_][j] # NegInf => d_ + 1 <= t
               /\ init[d_][j] = NegInf \/ rec[d_][j] = NegInf

(* the table of an early step has been built from two arrays that each    *)
(* have a finite cell                                                     *)
C12_Witness ==
    \E t \in EarlySteps :
        /\ t < Len(semi.deltas)
        /\ \E d_ \in DurIdx : \E j \in StateIdx :
              get_init_delta_array(semi, t, t + 1)[d_][j] # NegInf
        /\ \E d_ \in DurIdx : \E j \in StateIdx :
              get_delta_array(semi, t)[d_][j] # NegInf

(* C13: every backpointer stored in phi is the sentinel or names a        *)
(* predecessor state i # j and a duration in 1..d_max; hence in every     *)
(* returned segmentation each duration lies in 1..d_max and consecutive   *)
(* segments have different states.                                        *)
C13_ConsecutiveSegmentsDiffer ==
    /\ \A k \in 1 .. Len(semi.phis) : \A d_ \in DurIdx : \A j \in StateIdx :
          LET pair == semi.phis[k][d_][j]
          IN  \/ IsNan(pair[1]) \/ IsNan(pair[2])
              \/ /\ pair[1] \in StateIdx \ {j}
                 /\ pair[2] \in Durations
    /\ semi.pc = "returned" =>
          LET segs == semi.states_and_durations
          IN  \A k \in 1 .. Len(segs) :
                 /\ segs[k][1] \in StateIdx
                 /\ segs[k][2] \in Durations
                 /\ k < Len(segs) => segs[k][1] # segs[k + 1][1]

(* a returned segmentation of several segments, one of them longer than   *)
(* one observation                                                        *)
C13_Witness ==
    /\ semi.pc = "returned"
    /\ Len(semi.states_and_durations) >= 2
    /\ \E k \in 1 .. Len(semi.states_and_durations) :
          semi.states_and_durations[k][2] >= 2

----------------------------------------------------------------------------
(* Reference definitions for the claims about the HMM decoder *)

(* log of a probability as a number of the extended reals *)
LogProb(p) == IF p = PZero THEN NegInf ELSE 0 - p

StatePaths(T) == [1 .. T -> StateIdx]

IsStatePath(self, path) ==
    /\ Len(path) = self.n_obs
    /\ \A k \in 1 .. Len(path) : path[k] \in StateIdx

RECURSIVE PathScoreFrom(_, _, _)
PathScoreFrom(self, path, k) ==
    IF k > Len(path) THEN 0
    ELSE LET link == IF k = 1 THEN LogProb(self.mus[path[k]])
                              ELSE LogProb(self.trans_mat[path[k - 1]][path[k]])
             emit == LogProb(Emission(self.b, path[k], self.obs_list[k]))
         IN  FAdd(FAdd(link, emit), PathScoreFrom(self, path, k + 1))

PathScore(self, path) == PathScoreFrom(self, path, 1)

BruteMaxHmm(self) == MaxOf({PathScore(self, path) : path \in StatePaths(self.n_obs)})

FirstCallOver == hmm.calls = 1 /\ hmm.pc \in {"returned", "ValueError", "TypeError"}

(* C2: the first run_viterbi call on a decoder returns, and returns a     *)
(* path of length T whose elements are all state indices in [0, n).       *)
C2_PathOfLengthT ==
    FirstCallOver => hmm.pc = "returned" /\ IsStatePath(hmm, hmm.result)

(* C3: the path the first call returns has the greatest joint             *)
(* log-probability of all n^T state paths, and that maximum is            *)
(* max_j delta[T-1][j].                                                   *)
C3_HmmOptimal ==
    (hmm.calls = 1 /\ hmm.pc = "returned") =>
        /\ IsStatePath(hmm, hmm.result)
        /\ PathScore(hmm, hmm.result) = BruteMaxHmm(hmm)
        /\ BruteMaxHmm(hmm) = MaxOf({At(hmm.deltas, hmm.n_obs - 1)[j] : j \in StateIdx})

(* C5: a later run_viterbi call on the same decoder returns the path the  *)
(* first call returned.                                                   *)
C5_RepeatedDecodeSamePath ==
    (hmm.calls >= 2 /\ hmm.pc = "returned") => hmm.result = hmm.first

(* C6: a probability that is exactly 0 is never an error: the forward     *)
(* pass raises no ValueError at any step, t = 0 included, and a delta of  *)
(* step 0 whose mu[j] or b(j, o_0) is 0 is -infinity.                     *)
C6_ZeroIsNeverAnError ==
    /\ hmm.pc # "ValueError"
    /\ \A j \in StateIdx :
          (Len(hmm.deltas) >= 1
             /\ (hmm.mus[j] = PZero \/ Viterbi_b_Sj_Ot(hmm, j, 0) = PZero))
          => At(hmm.deltas, 0)[j] = NegInf

AllCandidatesNegInf(self, t, j) ==
    \A i \in StateIdx :
        FAdd(LogProb(self.trans_mat[i][j]), At(self.deltas, t - 1)[i]) = NegInf

(* C7: where every candidate log(A[i][j]) + delta[t-1][i] is -infinity    *)
(* the backpointer phi[t][j] is 0, and backtracking does not fail.        *)
C7_DegenerateBackpointerIsZero ==
    /\ \A t \in 1 .. (Len(hmm.phis) - 1) : \A j \in StateIdx :
          (t < hmm.n_obs /\ AllCandidatesNegInf(hmm, t, j)) => At(hmm.phis, t)[j] = 0
    /\ hmm.pc # "TypeError"

(* candidate i of the maximum of step t, target state j, of table k      *)
(* (tables k and k - 1 hold steps t = k % T and t - 1 of one call, and   *)
(* the code reads step t - 1 at self.deltas[t - 1])                      *)
HmmCandidate(self, t, j, i) ==
    FAdd(LogProb(self.trans_mat[i][j]), At(self.deltas, t - 1)[i])

HmmCandidateMax(self, t, j) == MaxOf({HmmCandidate(self, t, j, i) : i \in StateIdx})

SmallestArgmax(self, t, j) ==
    CHOOSE i \in StateIdx :
        /\ HmmCandidate(self, t, j, i) = HmmCandidateMax(self, t, j)
        /\ \A h \in StateIdx : h < i => HmmCandidate(self, t, j, h) < HmmCandidateMax(self, t, j)

(* C11: for every table of a step t >= 1 and every state j whose maximum  *)
(* max_i (log A[i][j] + delta[t-1][i]) is finite, phi[t][j] is the        *)
(* smallest i attaining it and delta[t][j], computed by _get_dtj, is      *)
(* log A[phi][j] + delta[t-1][phi] + log b(j, o_t); and the last state    *)
(* of a returned path is the smallest j attaining max_j of the last       *)
(* delta table.                                                           *)
C11_LowestIndexTieBreak ==
    /\ \A k \in 0 .. (Len(hmm.phis) - 1) : \A j \in StateIdx :
          LET t == k % hmm.n_obs
          IN  (t >= 1 /\ HmmCandidateMax(hmm, t, j) # NegInf) =>
                 /\ At(hmm.phis, k)[j] = SmallestArgmax(hmm, t, j)
                 /\ At(hmm.deltas, k)[j] =
                       FAdd(HmmCandidate(hmm, t, j, At(hmm.phis, k)[j]),
                            LogProb(Viterbi_b_Sj_Ot(hmm, j, t)))
    /\ hmm.pc = "returned" =>
          LET last  == Last(hmm.deltas)
              final == Last(hmm.result)
          IN  /\ final \in StateIdx
              /\ \A j \in StateIdx : last[j] <= last[final]
              /\ \A j \in StateIdx : j < final => last[j] < last[final]

(* a returned decode in which a finite maximum of some step is attained   *)
(* by two predecessors, and the last delta table has a finite tie too     *)
C11_Witness ==
    /\ hmm.pc = "returned"
    /\ hmm.n_obs >= 2
    /\ \E j \in StateIdx :
          /\ HmmCandidateMax(hmm, 1, j) # NegInf
          /\ Cardinality({i \in StateIdx :
                 HmmCandidate(hmm, 1, j, i) = HmmCandidateMax(hmm, 1, j)}) >= 2
    /\ \E j \in StateIdx : \E h \in StateIdx :
          j # h /\ Last(hmm.deltas)[j] = Last(hmm.deltas)[h]
               /\ Last(hmm.deltas)[j] # NegInf
               /\ \A g \in StateIdx : Last(hmm.deltas)[g] <= Last(hmm.deltas)[j]

----------------------------------------------------------------------------
(* Claims about sum_delta_arrays *)

AtMostOneFinite(a, b) ==
    \A r \in DOMAIN a : \A c \in DOMAIN a[r] : a[r][c] = NegInf \/ b[r][c] = NegInf

(* C8: when every cell has at most one finite operand, each cell of the   *)
(* result is that finite operand (0.0 included), or -infinity when both   *)
(* operands are -infinity.                                                *)
C8_MergePicksFinite ==
    (merge.pc = "returned" /\ AtMostOneFinite(merge.arg1, merge.arg2)) =>
        \A r \in MergeRows : \A c \in MergeCols :
            merge.res[r][c] = IF merge.arg1[r][c] # NegInf THEN merge.arg1[r][c]
                              ELSE merge.arg2[r][c]

(* C10: after the call both argument arrays hold the values they held     *)
(* before it.                                                             *)
C10_MergeLeavesArguments ==
    merge.pc = "returned" => merge.delta1 = merge.arg1 /\ merge.delta2 = merge.arg2

====
